---- MODULE Spec2Model ----
(***************************************************************************)
(* Node-storage layer of statedb-rs: LruMemStore and BTreeStore            *)
(* (src/src/mem_store.rs), both implementing the NodeDB trait              *)
(* (src/src/types.rs).  A store instance owns a private staging BTreeMap   *)
(* and shares two Mutex-guarded caches (kv: nodes, codes: code blobs)      *)
(* with every instance forked from it.                                     *)
(*                                                                         *)
(* Maps are sequences of <<key, value>> pairs without duplicate keys:      *)
(*   - a BTreeMap keeps its pairs in ascending key order,                  *)
(*   - an LruMap keeps its pairs in recency order, least recently used     *)
(*     first, and never holds more than `limit` pairs.                     *)
(* An Option is a sequence of length 0 (None) or 1 (Some).                 *)
(*                                                                         *)
(* The operations are first taken as one step each, which the Mutex of     *)
(* each cache justifies; the lock-level part of the module runs them step  *)
(* by step, one thread per instance, with the locks as state.              *)
(***************************************************************************)
EXTENDS Integers, Sequences, FiniteSets, TLC

\* ---- bounds of the model ----
MaxInst == 2
NumContents == 3
NumArcs == 2
NumDup == 1
MaxLimit == 2
NumCodeHashes == 2
NumBlobs == 2
MaxOps == 3

Inst == 1..MaxInst
Contents == 1..NumContents
Arcs == 1..NumArcs
CodeHashes == 1..NumCodeHashes
Blobs == 1..NumBlobs

\* An Arc<T>: the node value (content) and the allocation that holds it (arc).
\* Two Arcs of equal content are equal by value and distinct by pointer.
\* The contents 1..NumDup exist in NumArcs allocations, the others in one.
Nodes == {n \in [content : Contents, arc : Arcs] : n.arc = 1 \/ n.content <= NumDup}

None == <<>>
Some(v) == <<v>>

\* H::hash: a deterministic, collision-free content address.  Its order
\* differs from the order of the contents (1 -> 3, 2 -> 6, 3 -> 2, 4 -> 5).
Hash(n) == (3 * n.content) % 7

Hashes == {Hash(n) : n \in Nodes}

VARIABLES
    backing,     \* "lru" (LruMemStore) or "btree" (BTreeStore)
    limit,       \* LruMemStore::new(limit); 0 for BTreeStore (no limit)
    live,        \* the store instances that exist
    kvOf,        \* kvOf[i]: the node cache instance i's `kv` Arc points to
    codesOf,     \* codesOf[i]: the code cache instance i's `codes` Arc points to
    staging,     \* staging[i]: instance i's private BTreeMap<SH256, Arc<T>>
    kv,          \* kv[c]: the contents of node cache c
    codes,       \* codes[c]: the contents of code cache c
    commit_len,  \* the value returned by the last commit()
    written,     \* history: written[i] holds the nodes handed to add_node or
                 \* staging on instance i and not since committed by i or
                 \* removed from i by remove_staging_node
    order,       \* history of the eviction scenario: the hashes in the order
                 \* of their add_node calls
    inserted,    \* history of the eviction scenario: the hashes in the order
                 \* the commits inserted them into the node cache
    hit,         \* history of the promotion and staged-read scenarios:
                 \* <<h, branch>> for the last get that found its hash h, in
                 \* the shared cache (branch "cache", under the lock) or in
                 \* staging (branch "staging", no lock taken), if no commit
                 \* has followed it
    pc,          \* pc[i]: where the thread that owns instance i stands in
                 \* its operation: "idle" between two operations, "want"
                 \* before lock(), "held" after it, "take" and "store" inside
                 \* kv.append, "done" before the guard is dropped
    op,          \* op[i]: the operation that thread runs or ran last
    lock,        \* lock.kv, lock.codes: the instance whose thread holds the
                 \* Mutex of the cache, 0 when it is free
    tmp,         \* tmp[i]: the pairs kv.append has taken out of the map
    ret,         \* ret[i]: the local commit_len of instance i's commit
    staged0,     \* history: staged0[i] is the staging of i at the call of
                 \* its last commit
    started      \* history: the number of lock-taking operations called

\* The state of the threads and locks.
conc == <<pc, op, lock, tmp, ret, staged0, started>>

vars == <<backing, limit, live, kvOf, codesOf, staging, kv, codes, commit_len,
          written, order, inserted, hit, pc, op, lock, tmp, ret, staged0, started>>

\* What the operations taken as one step leave alone.
hist == <<order, inserted, hit, conc>>

\* Caches are allocated by `new`; an instance can own at most one of each.
CacheIds == Inst

\* ---- maps ----
Keys(m) == {m[x][1] : x \in DOMAIN m}

Lookup(m, k) ==
    IF k \in Keys(m)
    THEN Some((CHOOSE p \in {m[x] : x \in DOMAIN m} : p[1] = k)[2])
    ELSE None

Without(m, k) == SelectSeq(m, LAMBDA p : p[1] # k)

Before(m, k) == SelectSeq(m, LAMBDA p : p[1] < k)

After(m, k) == SelectSeq(m, LAMBDA p : p[1] > k)

\* std BTreeMap
BTreeGet(m, k) == Lookup(m, k)

BTreeInsert(m, k, v) == Before(m, k) \o <<<<k, v>>>> \o After(m, k)

BTreeRemove(m, k) == Without(m, k)

RECURSIVE BTreeAppend(_, _)
BTreeAppend(m, other) ==
    IF other = <<>> THEN m
    ELSE BTreeAppend(BTreeInsert(m, Head(other)[1], Head(other)[2]), Tail(other))

\* base::lru::LruMap
LruGetMap(m, k) ==
    IF k \in Keys(m)
    THEN Without(m, k) \o <<<<k, Lookup(m, k)[1]>>>>
    ELSE m

LruInsert(m, k, v, cap) ==
    LET put == Without(m, k) \o <<<<k, v>>>>
    IN IF Len(put) > cap THEN Tail(put) ELSE put

RECURSIVE LruAppend(_, _, _)
LruAppend(m, other, cap) ==
    IF other = <<>> THEN m
    ELSE LruAppend(LruInsert(m, Head(other)[1], Head(other)[2], cap), Tail(other), cap)

\* ---- calls ----
\* A call of an operation that may take a lock, with its arguments (0 where
\* the operation has none).
OpCall(name, hash, blob) == [name |-> name, hash |-> hash, blob |-> blob]

NoOp == OpCall("none", 0, 0)

\* ---- construction ----
\* LruMemStore::new(limit) or BTreeStore::new(): instance 1 with fresh caches.
\* The capacities are 1..MaxLimit; what LruMap does with a capacity of 0 is not
\* modelled.
Init ==
    /\ backing \in {"lru", "btree"}
    /\ limit \in IF backing = "lru" THEN 1..MaxLimit ELSE {0}
    /\ live = {1}
    /\ kvOf = [i \in Inst |-> 1]
    /\ codesOf = [i \in Inst |-> 1]
    /\ staging = [i \in Inst |-> <<>>]
    /\ kv = [c \in CacheIds |-> <<>>]
    /\ codes = [c \in CacheIds |-> <<>>]
    /\ commit_len = 0
    /\ written = [i \in Inst |-> {}]
    /\ order = <<>>
    /\ inserted = <<>>
    /\ hit = None
    /\ pc = [i \in Inst |-> "idle"]
    /\ op = [i \in Inst |-> NoOp]
    /\ lock = [kv |-> 0, codes |-> 0]
    /\ tmp = [i \in Inst |-> <<>>]
    /\ ret = [i \in Inst |-> None]
    /\ staged0 = [i \in Inst |-> <<>>]
    /\ started = 0

\* The caches instance i holds.
Kv(i) == kv[kvOf[i]]

Codes(i) == codes[codesOf[i]]

\* ---- NodeDB operations ----
\* Mutant: fork copies the caller's staging map (as the derived Clone does).
ForkCloneStaging(i) ==
    /\ i \in live
    /\ Inst \ live # {}
    /\ LET j == CHOOSE x \in Inst \ live : \A y \in Inst \ live : x <= y
       IN /\ live' = live \cup {j}
          /\ kvOf' = [kvOf EXCEPT ![j] = kvOf[i]]
          /\ codesOf' = [codesOf EXCEPT ![j] = codesOf[i]]
          /\ staging' = [staging EXCEPT ![j] = staging[i]]
          /\ written' = [written EXCEPT ![j] = {}]
    /\ UNCHANGED <<hist, backing, limit, kv, codes, commit_len>>

\* Mutant: fork copies the caches instead of cloning the Arcs.
ForkOwnCaches(i) ==
    /\ i \in live
    /\ Inst \ live # {}
    /\ LET j == CHOOSE x \in Inst \ live : \A y \in Inst \ live : x <= y
       IN /\ live' = live \cup {j}
          /\ kvOf' = [kvOf EXCEPT ![j] = j]
          /\ codesOf' = [codesOf EXCEPT ![j] = j]
          /\ kv' = [kv EXCEPT ![j] = kv[kvOf[i]]]
          /\ codes' = [codes EXCEPT ![j] = codes[codesOf[i]]]
          /\ staging' = [staging EXCEPT ![j] = <<>>]
          /\ written' = [written EXCEPT ![j] = {}]
    /\ UNCHANGED <<hist, backing, limit, commit_len>>

\* Mutant: fork hands the caller's staging map over to the new instance.
ForkMovesStaging(i) ==
    /\ i \in live
    /\ Inst \ live # {}
    /\ LET j == CHOOSE x \in Inst \ live : \A y \in Inst \ live : x <= y
       IN /\ live' = live \cup {j}
          /\ kvOf' = [kvOf EXCEPT ![j] = kvOf[i]]
          /\ codesOf' = [codesOf EXCEPT ![j] = codesOf[i]]
          /\ staging' = [staging EXCEPT ![j] = staging[i], ![i] = <<>>]
          /\ written' = [written EXCEPT ![j] = written[i], ![i] = {}]
    /\ UNCHANGED <<hist, backing, limit, kv, codes, commit_len>>

\* fork(): the new instance j clones both Arcs and starts with empty staging.
Fork(i) ==
    /\ i \in live
    /\ Inst \ live # {}
    /\ LET j == CHOOSE x \in Inst \ live : \A y \in Inst \ live : x <= y
       IN /\ live' = live \cup {j}
          /\ kvOf' = [kvOf EXCEPT ![j] = kvOf[i]]
          /\ codesOf' = [codesOf EXCEPT ![j] = codesOf[i]]
          /\ staging' = [staging EXCEPT ![j] = <<>>]
          /\ written' = [written EXCEPT ![j] = {}]
    /\ UNCHANGED <<hist, backing, limit, kv, codes, commit_len>>

\* Mutant: get never looks at staging.
GetResultCacheOnly(i, h) == Lookup(Kv(i), h)

\* Mutant: get asks the shared cache first and staging on a miss.
GetResultCacheFirst(i, h) ==
    IF Lookup(Kv(i), h) # None
    THEN Lookup(Kv(i), h)
    ELSE BTreeGet(staging[i], h)

\* Mutant: get never falls back to the shared cache.
GetResultStagingOnly(i, h) == BTreeGet(staging[i], h)

\* The value get(index) returns on instance i.
GetResult(i, h) ==
    IF BTreeGet(staging[i], h) # None
    THEN BTreeGet(staging[i], h)
    ELSE Lookup(Kv(i), h)

\* Mutant: get asks the shared cache as well when staging holds the hash.
GetOpAlwaysCache(i, h) ==
    /\ i \in live
    /\ kv' = IF backing = "lru" THEN [kv EXCEPT ![kvOf[i]] = LruGetMap(@, h)] ELSE kv
    /\ UNCHANGED <<backing, limit, live, kvOf, codesOf, staging, codes, commit_len, written>>

\* Mutant: the cache lookup of get does not count as a use of the entry.
GetOpNoPromote(i, h) ==
    /\ i \in live
    /\ UNCHANGED <<backing, limit, live, kvOf, codesOf, staging, kv, codes, commit_len, written>>

GetOp(i, h) ==
    /\ i \in live
    /\ kv' = IF BTreeGet(staging[i], h) # None THEN kv
             ELSE IF backing = "lru" THEN [kv EXCEPT ![kvOf[i]] = LruGetMap(@, h)]
             ELSE kv
    /\ UNCHANGED <<backing, limit, live, kvOf, codesOf, staging, codes, commit_len, written>>

Get(i, h) == GetOp(i, h) /\ UNCHANGED hist

\* Mutant: the last write wins (a plain insert instead of the entry API).
AddNodeMapOverwrite(m, n) == BTreeInsert(m, Hash(n), n)

AddNodeMap(m, n) ==
    IF Hash(n) \in Keys(m) THEN m ELSE BTreeInsert(m, Hash(n), n)

AddNodeOp(i, n) ==
    /\ i \in live
    /\ staging' = [staging EXCEPT ![i] = AddNodeMap(@, n)]
    /\ written' = [written EXCEPT ![i] = @ \cup {n}]
    /\ UNCHANGED <<backing, limit, live, kvOf, codesOf, kv, codes, commit_len>>

AddNode(i, n) == AddNodeOp(i, n) /\ UNCHANGED hist

\* staging(node): wraps the value c in a new Arc, one of `arcs`, then add_node.
Staging(i, c, arcs) ==
    \E n \in Nodes : n.content = c /\ n.arc \in arcs /\ AddNode(i, n)

\* Mutant: remove_staging_node also removes the hash from the shared cache.
RemoveStagingNodeAndCache(i, n) ==
    /\ i \in live
    /\ staging' = [staging EXCEPT ![i] = BTreeRemove(@, Hash(n))]
    /\ kv' = [kv EXCEPT ![kvOf[i]] = Without(@, Hash(n))]
    /\ written' = [written EXCEPT ![i] = {m \in @ : m.content # n.content}]
    /\ UNCHANGED <<hist, backing, limit, live, kvOf, codesOf, codes, commit_len>>

RemoveStagingNode(i, n) ==
    /\ i \in live
    /\ staging' = [staging EXCEPT ![i] = BTreeRemove(@, Hash(n))]
    /\ written' = [written EXCEPT ![i] = {m \in @ : m.content # n.content}]
    /\ UNCHANGED <<hist, backing, limit, live, kvOf, codesOf, kv, codes, commit_len>>

\* Mutant: set_code keeps the blob already stored under the hash.
SetCodeIfVacant(i, h, code) ==
    /\ i \in live
    /\ codes' = [codes EXCEPT ![codesOf[i]] =
                    IF h \in Keys(@) THEN @
                    ELSE IF backing = "lru" THEN LruInsert(@, h, code, limit)
                    ELSE BTreeInsert(@, h, code)]
    /\ UNCHANGED <<hist, backing, limit, live, kvOf, codesOf, staging, kv, commit_len, written>>

SetCodeOp(i, h, code) ==
    /\ i \in live
    /\ codes' = [codes EXCEPT ![codesOf[i]] =
                    IF backing = "lru" THEN LruInsert(@, h, code, limit)
                    ELSE BTreeInsert(@, h, code)]
    /\ UNCHANGED <<backing, limit, live, kvOf, codesOf, staging, kv, commit_len, written>>

SetCode(i, h, code) == SetCodeOp(i, h, code) /\ UNCHANGED hist

\* The value get_code(hash) returns on instance i.
GetCodeResult(i, h) == Lookup(Codes(i), h)

GetCodeOp(i, h) ==
    /\ i \in live
    /\ codes' = IF backing = "lru" THEN [codes EXCEPT ![codesOf[i]] = LruGetMap(@, h)]
                ELSE codes
    /\ UNCHANGED <<backing, limit, live, kvOf, codesOf, staging, kv, commit_len, written>>

GetCode(i, h) == GetCodeOp(i, h) /\ UNCHANGED hist

\* Mutant: commit clears staging without publishing it.
CommitKvDropped(i) == Kv(i)

\* Mutant: commit replaces the cache by the staging map.
CommitKvReplace(i) == staging[i]

\* Mutant: commit inserts the staged pairs in descending hash order.
CommitKvReverse(i) ==
    LET rev == [x \in DOMAIN staging[i] |-> staging[i][Len(staging[i]) + 1 - x]]
    IN IF backing = "lru" THEN LruAppend(Kv(i), rev, limit)
       ELSE BTreeAppend(Kv(i), rev)

\* Mutant: commit appends to the node cache without regard to its capacity.
CommitKvUnbounded(i) == BTreeAppend(Kv(i), staging[i])

\* kv.append(&mut self.staging)
CommitKv(i) ==
    IF backing = "lru" THEN LruAppend(Kv(i), staging[i], limit)
    ELSE BTreeAppend(Kv(i), staging[i])

\* Mutant: the length is read after the append has drained staging.
CommitOpLenAfter(i) ==
    /\ i \in live
    /\ staging' = [staging EXCEPT ![i] = <<>>]
    /\ commit_len' = Len(staging'[i])
    /\ kv' = [kv EXCEPT ![kvOf[i]] = CommitKv(i)]
    /\ written' = [written EXCEPT ![i] = {}]
    /\ UNCHANGED <<backing, limit, live, kvOf, codesOf, codes>>

\* Mutant: one capacity budget for both caches: a commit that overflows the
\* node cache also evicts the least recently used code.
CommitOpEvictsCode(i) ==
    /\ i \in live
    /\ commit_len' = Len(staging[i])
    /\ kv' = [kv EXCEPT ![kvOf[i]] = CommitKv(i)]
    /\ codes' = [codes EXCEPT ![codesOf[i]] =
                    IF backing = "lru" /\ Len(Kv(i)) + Len(staging[i]) > limit /\ @ # <<>>
                    THEN Tail(@) ELSE @]
    /\ staging' = [staging EXCEPT ![i] = <<>>]
    /\ written' = [written EXCEPT ![i] = {}]
    /\ UNCHANGED <<backing, limit, live, kvOf, codesOf>>

CommitOp(i) ==
    /\ i \in live
    /\ commit_len' = Len(staging[i])
    /\ kv' = [kv EXCEPT ![kvOf[i]] = CommitKv(i)]
    /\ staging' = [staging EXCEPT ![i] = <<>>]
    /\ written' = [written EXCEPT ![i] = {}]
    /\ UNCHANGED <<backing, limit, live, kvOf, codesOf, codes>>

Commit(i) == CommitOp(i) /\ UNCHANGED hist

\* Mutant: clear empties the code cache as well.
ClearCodesToo(i) ==
    /\ i \in live
    /\ kv' = [kv EXCEPT ![kvOf[i]] = <<>>]
    /\ codes' = [codes EXCEPT ![codesOf[i]] = <<>>]
    /\ UNCHANGED <<hist, backing, limit, live, kvOf, codesOf, staging, commit_len, written>>

ClearOp(i) ==
    /\ i \in live
    /\ kv' = [kv EXCEPT ![kvOf[i]] = <<>>]
    /\ UNCHANGED <<backing, limit, live, kvOf, codesOf, staging, codes, commit_len, written>>

Clear(i) == ClearOp(i) /\ UNCHANGED hist

\* An instance goes out of scope: its staging map is freed, the caches stay
\* alive as long as another instance holds them.
\* Mutant: dropping an instance flushes its staging map into the node cache.
DropFlushes(i) ==
    /\ i \in live
    /\ live # {i}
    /\ live' = live \ {i}
    /\ kv' = [kv EXCEPT ![kvOf[i]] = CommitKv(i)]
    /\ staging' = [staging EXCEPT ![i] = <<>>]
    /\ written' = [written EXCEPT ![i] = {}]
    /\ UNCHANGED <<hist, backing, limit, kvOf, codesOf, codes, commit_len>>

Drop(i) ==
    /\ i \in live
    /\ live # {i}
    /\ live' = live \ {i}
    /\ staging' = [staging EXCEPT ![i] = <<>>]
    /\ written' = [written EXCEPT ![i] = {}]
    /\ UNCHANGED <<hist, backing, limit, kvOf, codesOf, kv, codes, commit_len>>

\* The node operations of every instance, with every Arc.
Next ==
    \/ \E i \in Inst : Fork(i)
    \/ \E i \in Inst, h \in Hashes : Get(i, h)
    \/ \E i \in Inst, n \in Nodes : AddNode(i, n)
    \/ \E i \in Inst, c \in Contents : Staging(i, c, Arcs)
    \/ \E i \in Inst, n \in Nodes : RemoveStagingNode(i, n)
    \/ \E i \in Inst : Commit(i)
    \/ \E i \in Inst : Clear(i)
    \/ \E i \in Inst : Drop(i)

Spec == Init /\ [][Next]_vars

\* The node and the code operations of every instance, each content held by
\* one Arc.
OneArc == {n \in Nodes : n.arc = 1}

NextCode ==
    \/ \E i \in Inst : Fork(i)
    \/ \E i \in Inst, h \in Hashes : Get(i, h)
    \/ \E i \in Inst, n \in OneArc : AddNode(i, n)
    \/ \E i \in Inst, c \in Contents : Staging(i, c, {1})
    \/ \E i \in Inst, n \in OneArc : RemoveStagingNode(i, n)
    \/ \E i \in Inst, h \in CodeHashes, code \in Blobs : SetCode(i, h, code)
    \/ \E i \in Inst, h \in CodeHashes : GetCode(i, h)
    \/ \E i \in Inst : Commit(i)
    \/ \E i \in Inst : Clear(i)
    \/ \E i \in Inst : Drop(i)

SpecCode == Init /\ [][NextCode]_vars

\* The eviction scenario: a fresh LruMemStore and its forks add limit + 1
\* distinct nodes and commit them, in one commit or several, without a read.
InitEvict == Init /\ backing = "lru"

KeySeq(m) == [x \in DOMAIN m |-> m[x][1]]

Range(q) == {q[x] : x \in DOMAIN q}

EvictAddNode(i, n) ==
    /\ Hash(n) \notin Range(order)
    /\ Len(order) <= limit
    /\ AddNodeOp(i, n)
    /\ order' = Append(order, Hash(n))
    /\ UNCHANGED <<inserted, hit, conc>>

EvictCommit(i) ==
    /\ staging[i] # <<>>
    /\ CommitOp(i)
    /\ inserted' = inserted \o KeySeq(staging[i])
    /\ UNCHANGED <<order, hit, conc>>

NextEvict ==
    \/ \E i \in Inst : Fork(i)
    \/ \E i \in Inst, n \in Nodes : EvictAddNode(i, n)
    \/ \E i \in Inst : EvictCommit(i)

SpecEvict == InitEvict /\ [][NextEvict]_vars

\* The promotion scenario: an LruMemStore and its forks commit nodes, set
\* codes and read both caches; `inserted` records the order in which the
\* commits inserted the hashes, `hit` the last get answered by the cache.
CacheHit(i, h) == BTreeGet(staging[i], h) = None /\ h \in Keys(Kv(i))

StagingHit(i, h) == BTreeGet(staging[i], h) # None

PromoteGet(i, h) ==
    /\ GetOp(i, h)
    /\ hit' = IF CacheHit(i, h) THEN <<h, "cache">> ELSE hit
    /\ UNCHANGED <<order, inserted, conc>>

PromoteCommit(i) ==
    /\ staging[i] # <<>>
    /\ Len(inserted) + Len(staging[i]) <= NumContents
    /\ CommitOp(i)
    /\ inserted' = inserted \o KeySeq(staging[i])
    /\ hit' = None
    /\ UNCHANGED <<order, conc>>

NextPromote ==
    \/ \E i \in Inst : Fork(i)
    \/ \E i \in Inst, n \in OneArc : AddNode(i, n)
    \/ \E i \in Inst, h \in Hashes : PromoteGet(i, h)
    \/ \E i \in Inst : PromoteCommit(i)
    \/ \E i \in Inst, h \in CodeHashes : SetCode(i, h, 1)
    \/ \E i \in Inst, h \in CodeHashes : GetCode(i, h)

SpecPromote == InitEvict /\ [][NextPromote]_vars

\* The staged-read scenario: an LruMemStore and its forks stage nodes, under
\* one Arc or another, commit them and read them back; `hit` records the
\* last get if staging served it and no get of the cache or commit followed.
StagedGet(i, h) ==
    /\ GetOp(i, h)
    /\ hit' = IF StagingHit(i, h) THEN <<h, "staging">> ELSE None
    /\ UNCHANGED <<order, inserted, conc>>

StagedCommit(i) ==
    /\ staging[i] # <<>>
    /\ CommitOp(i)
    /\ hit' = None
    /\ UNCHANGED <<order, inserted, conc>>

NextStaged ==
    \/ \E i \in Inst : Fork(i)
    \/ \E i \in Inst, n \in Nodes : AddNode(i, n)
    \/ \E i \in Inst, h \in Hashes : StagedGet(i, h)
    \/ \E i \in Inst : StagedCommit(i)

SpecStaged == InitEvict /\ [][NextStaged]_vars

\* ---- the operations at the level of the locks ----
\* Each instance is used by one thread.  An operation that takes a lock runs
\* in steps: the call, lock(), the work on the map under the lock, and the
\* return, where the guard goes out of scope.  fork, add_node, staging and
\* remove_staging_node take no lock and stay one step.

\* The cache whose Mutex the operation locks.
LockOf(o) == IF o.name \in {"get", "commit", "clear"} THEN "kv" ELSE "codes"

\* The call of operation o on instance i.  A get that finds its hash in
\* staging returns at once.
LockCall(i, o) ==
    /\ i \in live
    /\ pc[i] = "idle"
    /\ started < MaxOps
    /\ started' = started + 1
    /\ op' = [op EXCEPT ![i] = o]
    /\ pc' = [pc EXCEPT ![i] =
                 IF o.name = "get" /\ StagingHit(i, o.hash) THEN "idle" ELSE "want"]
    /\ staged0' = IF o.name = "commit" THEN [staged0 EXCEPT ![i] = staging[i]]
                  ELSE staged0
    /\ UNCHANGED <<backing, limit, live, kvOf, codesOf, staging, kv, codes, commit_len,
                   written, order, inserted, hit, lock, tmp, ret>>

\* Mutant: lock() returns although another thread holds the Mutex.
LockAcquireBarge(i) ==
    /\ pc[i] = "want"
    /\ lock' = [lock EXCEPT ![LockOf(op[i])] = i]
    /\ pc' = [pc EXCEPT ![i] = "held"]
    /\ UNCHANGED <<backing, limit, live, kvOf, codesOf, staging, kv, codes, commit_len,
                   written, order, inserted, hit, op, tmp, ret, staged0, started>>

\* self.kv.lock().unwrap() or self.codes.lock().unwrap(): blocks while
\* another thread holds the Mutex.
LockAcquire(i) ==
    /\ pc[i] = "want"
    /\ lock[LockOf(op[i])] = 0
    /\ lock' = [lock EXCEPT ![LockOf(op[i])] = i]
    /\ pc' = [pc EXCEPT ![i] = "held"]
    /\ UNCHANGED <<backing, limit, live, kvOf, codesOf, staging, kv, codes, commit_len,
                   written, order, inserted, hit, op, tmp, ret, staged0, started>>

\* What a step under the lock leaves alone besides the program counter.
held == <<order, inserted, hit, op, lock, tmp, ret, staged0, started>>

\* kv.get(index).cloned()
LockGet(i) ==
    /\ pc[i] = "held" /\ op[i].name = "get"
    /\ GetOp(i, op[i].hash)
    /\ pc' = [pc EXCEPT ![i] = "done"]
    /\ UNCHANGED held

\* kv.clear()
LockClear(i) ==
    /\ pc[i] = "held" /\ op[i].name = "clear"
    /\ ClearOp(i)
    /\ pc' = [pc EXCEPT ![i] = "done"]
    /\ UNCHANGED held

\* codes.insert(hash, Arc::new(code.into_owned()))
LockSetCode(i) ==
    /\ pc[i] = "held" /\ op[i].name = "set_code"
    /\ SetCodeOp(i, op[i].hash, op[i].blob)
    /\ pc' = [pc EXCEPT ![i] = "done"]
    /\ UNCHANGED held

\* codes.get(hash).map(|v| v.clone())
LockGetCode(i) ==
    /\ pc[i] = "held" /\ op[i].name = "get_code"
    /\ GetCodeOp(i, op[i].hash)
    /\ pc' = [pc EXCEPT ![i] = "done"]
    /\ UNCHANGED held

\* let commit_len = self.staging.len()
LockCommitLen(i) ==
    /\ pc[i] = "held" /\ op[i].name = "commit"
    /\ ret' = [ret EXCEPT ![i] = Some(Len(staging[i]))]
    /\ pc' = [pc EXCEPT ![i] = "take"]
    /\ UNCHANGED <<backing, limit, live, kvOf, codesOf, staging, kv, codes, commit_len,
                   written, order, inserted, hit, op, lock, tmp, staged0, started>>

\* kv.append(&mut self.staging), first half: append takes the pairs out of
\* the map to merge them with those of staging.
LockCommitTake(i) ==
    /\ pc[i] = "take"
    /\ tmp' = [tmp EXCEPT ![i] = Kv(i)]
    /\ kv' = [kv EXCEPT ![kvOf[i]] = <<>>]
    /\ pc' = [pc EXCEPT ![i] = "store"]
    /\ UNCHANGED <<backing, limit, live, kvOf, codesOf, staging, codes, commit_len,
                   written, order, inserted, hit, op, lock, ret, staged0, started>>

\* kv.append(&mut self.staging), second half: the merged pairs are stored in
\* the map and staging is left empty.
LockCommitStore(i) ==
    /\ pc[i] = "store"
    /\ kv' = [kv EXCEPT ![kvOf[i]] =
                 IF backing = "lru" THEN LruAppend(tmp[i], staging[i], limit)
                 ELSE BTreeAppend(tmp[i], staging[i])]
    /\ tmp' = [tmp EXCEPT ![i] = <<>>]
    /\ staging' = [staging EXCEPT ![i] = <<>>]
    /\ written' = [written EXCEPT ![i] = {}]
    /\ pc' = [pc EXCEPT ![i] = "done"]
    /\ UNCHANGED <<backing, limit, live, kvOf, codesOf, codes, commit_len,
                   order, inserted, hit, op, lock, ret, staged0, started>>

\* Mutant: the operation returns with the guard leaked, the Mutex locked.
LockReleaseLeak(i) ==
    /\ pc[i] = "done"
    /\ pc' = [pc EXCEPT ![i] = "idle"]
    /\ commit_len' = IF op[i].name = "commit" THEN ret[i][1] ELSE commit_len
    /\ UNCHANGED <<backing, limit, live, kvOf, codesOf, staging, kv, codes,
                   written, order, inserted, hit, op, lock, tmp, ret, staged0, started>>

\* The return: the MutexGuard goes out of scope and unlocks; commit returns
\* its local commit_len.
LockRelease(i) ==
    /\ pc[i] = "done"
    /\ lock' = [lock EXCEPT ![LockOf(op[i])] = 0]
    /\ pc' = [pc EXCEPT ![i] = "idle"]
    /\ commit_len' = IF op[i].name = "commit" THEN ret[i][1] ELSE commit_len
    /\ UNCHANGED <<backing, limit, live, kvOf, codesOf, staging, kv, codes,
                   written, order, inserted, hit, op, tmp, ret, staged0, started>>

\* The steps of a called operation of instance i's thread.
LockStep(i) ==
    \/ LockAcquire(i)
    \/ LockGet(i)
    \/ LockClear(i)
    \/ LockSetCode(i)
    \/ LockGetCode(i)
    \/ LockCommitLen(i)
    \/ LockCommitTake(i)
    \/ LockCommitStore(i)
    \/ LockRelease(i)

\* The node of the lock-level scenarios.
LockNodes == {n \in OneArc : n.content = 1}

LockHashes == {Hash(n) : n \in LockNodes}

\* The five operations that take a lock, called by the threads of a store and
\* its forks in any interleaving, at most MaxOps calls in all.
LockOps ==
    {OpCall("get", h, 0) : h \in LockHashes}
        \cup {OpCall("commit", 0, 0), OpCall("clear", 0, 0)}
        \cup {OpCall("get_code", 1, 0), OpCall("set_code", 1, 1)}

NextLock ==
    \/ \E i \in Inst : pc[i] = "idle" /\ Fork(i)
    \/ \E i \in Inst, n \in LockNodes : pc[i] = "idle" /\ AddNode(i, n)
    \/ \E i \in Inst, o \in LockOps : LockCall(i, o)
    \/ \E i \in Inst : LockStep(i)

\* Each thread that can take a step eventually takes one.
SpecLock == Init /\ [][NextLock]_vars /\ \A i \in Inst : WF_vars(LockStep(i))

\* The concurrent-commit scenario: a BTreeStore and its fork stage nodes, one
\* of them under either Arc, and each commits once while set_code calls run,
\* the steps of the threads interleaved in any way.
InitCommit == Init /\ backing = "btree"

CommitNodes == {n \in Nodes : n.content <= 2}

\* The steps of a called commit or set_code of instance i's thread.
CommitStep(i) ==
    \/ LockAcquire(i)
    \/ LockSetCode(i)
    \/ LockCommitLen(i)
    \/ LockCommitTake(i)
    \/ LockCommitStore(i)
    \/ LockRelease(i)

NextCommit ==
    \/ \E i \in Inst : pc[i] = "idle" /\ Fork(i)
    \/ \E i \in Inst, n \in CommitNodes :
          pc[i] = "idle" /\ ret[i] = None /\ AddNode(i, n)
    \/ \E i \in Inst : ret[i] = None /\ LockCall(i, OpCall("commit", 0, 0))
    \/ \E i \in Inst, b \in Blobs : LockCall(i, OpCall("set_code", 1, b))
    \/ \E i \in Inst : CommitStep(i)

SpecCommit == InitCommit /\ [][NextCommit]_vars

\* ---- helpers of the properties ----
\* Some(m) with m equal to n by value (the Arc may differ).
SameValue(opt, n) == opt # None /\ opt[1].content = n.content

Pairs(m) == {m[x] : x \in DOMAIN m}

\* C1 (read-your-writes): in every reachable state, for either backing and
\* any capacity, a node handed to add_node on instance X and not since
\* committed by X or removed from X is returned by X.get(hash(n)), whatever
\* the other instances did to the shared cache.
C1_ReadYourWrites ==
    \A x \in live : \A n \in written[x] :
        SameValue(GetResult(x, Hash(n)), n)

\* A full LRU cache of capacity 1 holds another node, a second instance
\* exists, and X holds an uncommitted node that is not in the cache.
C1_Witness ==
    /\ backing = "lru" /\ limit = 1
    /\ Cardinality(live) = 2
    /\ \E x \in live : \E n \in written[x] :
        Len(Kv(x)) = 1 /\ Hash(n) \notin Keys(Kv(x))

\* C2 (write isolation): a node written through X and not committed is
\* invisible to every other instance Y: as long as no node of that hash is in
\* the shared cache and Y has not staged one itself, Y.get(hash(n)) is None;
\* and add_node on X changes neither the shared cache nor Y's staging.
C2_WriteIsolation ==
    /\ [](\A x \in live : \A y \in live \ {x} : \A n \in written[x] :
            (/\ Hash(n) \notin Keys(Kv(y))
             /\ \A m \in written[y] : m.content # n.content)
            => GetResult(y, Hash(n)) = None)
    /\ [][\A x \in Inst : \A n \in Nodes :
            AddNode(x, n) =>
                /\ kv' = kv
                /\ \A y \in Inst \ {x} : staging'[y] = staging[y]]_vars

\* X and Y both exist, X holds an uncommitted node, Y holds another one, and
\* Y.get on X's hash misses.
C2_Witness ==
    \E x \in live : \E y \in live \ {x} : \E n \in written[x] :
        /\ written[y] # {}
        /\ \A m \in written[y] : m.content # n.content
        /\ Hash(n) \notin Keys(Kv(y))
        /\ GetResult(y, Hash(n)) = None

\* C3 as claimed (commit visibility): after X.add_node(n); X.commit(), get on
\* every instance sharing the cache returns Some(n).
C3_CommitVisibleAlways ==
    [][\A x \in Inst : Commit(x) =>
          \A n \in written[x] : \A y \in live :
              SameValue(GetResult(y, Hash(n))', n)]_vars

\* C3 as amended: the same, in the unbounded backing always and in the LRU
\* backing when X has at most `limit` nodes staged at the commit; an instance
\* forked afterwards sees what its parent's cache holds.
C3_CommitVisible ==
    [][/\ \A x \in Inst :
            (Commit(x) /\ (backing = "btree" \/ Len(staging[x]) <= limit)) =>
                \A n \in written[x] : \A y \in live :
                    SameValue(GetResult(y, Hash(n))', n)
       /\ \A x \in Inst : Fork(x) =>
            \A j \in live' \ live : \A h \in Hashes :
                GetResult(j, h)' = Lookup(Kv(x), h)]_vars

\* X has just committed a full cache's worth of nodes with a sibling alive
\* that reads them from the shared cache.
C3_Witness ==
    /\ backing = "lru" /\ limit = 2 /\ commit_len = 2
    /\ Cardinality(live) = 2
    /\ \A y \in live : staging[y] = <<>> /\ Len(Kv(y)) = 2
    /\ \A y \in live : \A h \in Keys(Kv(y)) : GetResult(y, h) # None

\* C4 as claimed (content addressing): get(hash(n)) on the instance that
\* staged n returns n from staging before the commit and from the shared
\* cache after it, for any number of staged nodes and either backing.
C4_ContentAddressedAlways ==
    /\ [](\A x \in live : \A n \in written[x] :
            /\ BTreeGet(staging[x], Hash(n)) # None
            /\ GetResult(x, Hash(n)) = BTreeGet(staging[x], Hash(n))
            /\ SameValue(GetResult(x, Hash(n)), n))
    /\ [][\A x \in Inst : Commit(x) =>
            \A n \in written[x] :
                /\ BTreeGet(staging'[x], Hash(n)) = None
                /\ SameValue(Lookup(Kv(x)', Hash(n)), n)
                /\ GetResult(x, Hash(n))' = Lookup(Kv(x)', Hash(n))]_vars

\* C4 as amended: after the commit the nodes are served from the shared cache
\* in the unbounded backing, and in the LRU backing when the instance commits
\* at most `limit` nodes at once.
C4_ContentAddressed ==
    /\ [](\A x \in live : \A n \in written[x] :
            /\ BTreeGet(staging[x], Hash(n)) # None
            /\ GetResult(x, Hash(n)) = BTreeGet(staging[x], Hash(n))
            /\ SameValue(GetResult(x, Hash(n)), n))
    /\ [][\A x \in Inst :
            (Commit(x) /\ (backing = "btree" \/ Len(staging[x]) <= limit)) =>
                \A n \in written[x] :
                    /\ BTreeGet(staging'[x], Hash(n)) = None
                    /\ SameValue(Lookup(Kv(x)', Hash(n)), n)
                    /\ GetResult(x, Hash(n))' = Lookup(Kv(x)', Hash(n))]_vars

\* Every content has been staged and committed by one instance into the
\* unbounded cache, and the instance reads all of them back from the cache.
C4_Witness ==
    /\ backing = "btree" /\ commit_len = NumContents
    /\ \E x \in live :
        /\ staging[x] = <<>>
        /\ \A n \in Nodes : SameValue(GetResult(x, Hash(n)), n)

C6_FirstWriteWins ==
    /\ [](\A i \in Inst :
            /\ Cardinality(Keys(staging[i])) = Len(staging[i])
            /\ \A p \in Pairs(staging[i]) : p[1] = Hash(p[2]) /\ p[2] \in written[i])
    /\ [][\A i \in Inst : \A n \in Nodes :
            /\ AddNode(i, n) =>
                IF Hash(n) \in Keys(staging[i])
                THEN staging'[i] = staging[i]
                ELSE /\ Lookup(staging'[i], Hash(n)) = Some(n)
                     /\ Pairs(staging'[i]) = Pairs(staging[i]) \cup {<<Hash(n), n>>}
            /\ RemoveStagingNode(i, n) =>
                Pairs(staging'[i]) = {p \in Pairs(staging[i]) : p[1] # Hash(n)}]_vars

\* Two Arcs of the same content were handed to add_node on one instance,
\* whose staging holds one entry.
C6_Witness ==
    \E i \in live : \E n \in written[i] : \E m \in written[i] :
        /\ n # m /\ Hash(n) = Hash(m)
        /\ Len(staging[i]) = 1

\* limit + 1 distinct nodes have been added and all of them committed.
EvictDone ==
    /\ Len(order) = limit + 1
    /\ \A i \in live : staging[i] = <<>>

\* C7 as claimed (bounded eviction): after limit + 1 distinct nodes were
\* added and committed without a read, exactly the node whose add_node came
\* first is evicted: get misses on its hash and hits on the other hashes.
C7_EvictsFirstAdded ==
    EvictDone =>
        \A x \in live : \A h \in Range(order) :
            GetResult(x, h) = None <=> h = Head(order)

\* C7 as amended: exactly the node that was inserted into the shared cache
\* first is evicted; the commits insert in their order, and one commit inserts
\* its staged nodes in ascending hash order, whatever the add_node order.
C7_EvictsFirstInserted ==
    EvictDone =>
        /\ Range(inserted) = Range(order) /\ Len(inserted) = limit + 1
        /\ \A x \in live :
            /\ Len(Kv(x)) = limit
            /\ \A h \in Range(order) :
                   GetResult(x, h) = None <=> h = Head(inserted)

\* Capacity 2, three nodes committed, and the node evicted is not the one
\* whose add_node came first.
C7_Witness ==
    /\ EvictDone /\ limit = 2
    /\ Head(inserted) # Head(order)
    /\ \A x \in live : GetResult(x, Head(order)) # None
    /\ \A x \in live : GetResult(x, Head(inserted)) = None

\* C8 as claimed (the unbounded backing never loses data): in BTreeStore no
\* step removes a key from the shared node cache or from the shared code
\* cache, so what was committed or set stays retrievable from every instance.
C8_NeverLosesAlways ==
    [][backing = "btree" =>
          \A c \in CacheIds :
              /\ Keys(kv[c]) \subseteq Keys(kv'[c])
              /\ Keys(codes[c]) \subseteq Keys(codes'[c])]_vars

\* C8 as amended: the same for every step but clear(), which empties the node
\* cache: a committed node stays retrievable by value through get on every
\* instance, and a code hash stays retrievable through get_code.
C8_NeverLoses ==
    [][backing = "btree" =>
          /\ \A c \in CacheIds : Keys(codes[c]) \subseteq Keys(codes'[c])
          /\ \A y \in live' : \A h \in Keys(Codes(y)) : GetCodeResult(y, h)' # None
          /\ \/ \E i \in live : Clear(i)
             \/ /\ \A c \in CacheIds : Keys(kv[c]) \subseteq Keys(kv'[c])
                /\ \A y \in live' : \A p \in Pairs(Kv(y)) :
                       SameValue(GetResult(y, p[1])', p[2])]_vars

\* The unbounded caches hold every node and every code hash of the model,
\* more than any LRU capacity of the model, and two instances share them.
C8_Witness ==
    /\ backing = "btree" /\ Cardinality(live) = 2
    /\ NumContents > MaxLimit
    /\ \A y \in live : Len(Kv(y)) = NumContents /\ Len(Codes(y)) = NumCodeHashes
    /\ \A y \in live : \A n \in OneArc : SameValue(GetResult(y, Hash(n)), n)

\* C9 (get reports misses faithfully): get(h) on X is Some exactly when h is
\* a key of X's staging or of the shared node cache, the staged node taking
\* precedence over the cached one; it is None otherwise; no get changes the
\* staging maps or which pairs the cache holds, and a miss changes nothing.
C9_GetFaithful ==
    /\ [](\A i \in live : \A h \in Hashes :
            /\ GetResult(i, h) # None <=> h \in Keys(staging[i]) \cup Keys(Kv(i))
            /\ h \in Keys(staging[i]) => GetResult(i, h) = Lookup(staging[i], h)
            /\ h \notin Keys(staging[i]) => GetResult(i, h) = Lookup(Kv(i), h))
    /\ [][\A i \in Inst : \A h \in Hashes :
            Get(i, h) =>
                /\ staging' = staging
                /\ \A c \in CacheIds : Pairs(kv'[c]) = Pairs(kv[c])
                /\ GetResult(i, h) = None => kv' = kv]_vars

\* An instance stages one Arc of a content while the cache holds another Arc
\* of it, and some other hash misses in both.
C9_Witness ==
    \E i \in live : \E h \in Hashes : \E g \in Hashes :
        /\ h \in Keys(staging[i]) /\ h \in Keys(Kv(i))
        /\ Lookup(staging[i], h) # Lookup(Kv(i), h)
        /\ GetResult(i, h) = Lookup(staging[i], h)
        /\ GetResult(i, g) = None

NodeCacheStep ==
    \E i \in Inst : Commit(i) \/ Clear(i) \/ \E h \in Hashes : Get(i, h)

CodeCacheStep ==
    \E i \in Inst : \E h \in CodeHashes :
        GetCode(i, h) \/ \E b \in Blobs : SetCode(i, h, b)

\* C11 (independent code/node eviction): in the LRU backing no add_node or
\* commit step, whatever it does to the node cache, changes the code cache,
\* and no set_code step changes the node cache; a step that changes the code
\* cache is a set_code or get_code step, a step that changes the node cache
\* is a commit, clear or get step.
C11_IndependentEviction ==
    [][backing = "lru" =>
          /\ \A i \in Inst :
                (Commit(i) \/ \E n \in Nodes : AddNode(i, n)) => codes' = codes
          /\ \A i \in Inst : \A h \in CodeHashes : \A b \in Blobs :
                SetCode(i, h, b) => kv' = kv
          /\ codes' # codes => CodeCacheStep
          /\ kv' # kv => NodeCacheStep]_vars

\* Both LRU caches are full at capacity 2, and the last commit handed more
\* nodes to the node cache than it can hold.
C11_Witness ==
    /\ backing = "lru" /\ limit = 2 /\ commit_len = NumContents
    /\ NumContents > 2
    /\ \A y \in live : Len(Kv(y)) = 2 /\ Len(Codes(y)) = 2

\* C12 (staging-only operations): add_node, staging and remove_staging_node
\* on instance i leave both shared caches and the staging of every other
\* instance unchanged; remove_staging_node of a hash that is not staged
\* changes nothing at all, and after remove_staging_node of a node whose hash
\* the shared cache holds, get still returns that node on every instance that
\* has not staged the hash itself.  A staging step is the add_node step of
\* the Arc it allocates.
C12_StagingOnly ==
    [][\A i \in Inst : \A n \in Nodes :
          /\ (AddNode(i, n) \/ RemoveStagingNode(i, n)) =>
                /\ kv' = kv
                /\ codes' = codes
                /\ \A y \in Inst \ {i} : staging'[y] = staging[y]
          /\ (RemoveStagingNode(i, n) /\ Hash(n) \notin Keys(staging[i])) =>
                staging' = staging
          /\ (RemoveStagingNode(i, n) /\ Hash(n) \in Keys(Kv(i))) =>
                \A y \in live :
                    (y = i \/ Hash(n) \notin Keys(staging[y])) =>
                        GetResult(y, Hash(n))' = Lookup(Kv(i), Hash(n))]_vars

\* Two instances share a cache that holds a committed node whose hash neither
\* of them has staged, both have other nodes staged, and a code is set.
C12_Witness ==
    /\ Cardinality(live) = 2
    /\ \A y \in live : staging[y] # <<>> /\ Codes(y) # <<>>
    /\ \E h \in Hashes : \A y \in live :
          /\ h \in Keys(Kv(y)) /\ h \notin Keys(staging[y])
          /\ GetResult(y, h) = Lookup(Kv(y), h)

\* C13 (clear empties the node cache only): after clear() on instance i, on
\* every instance y sharing the cache get(h) is None for every hash y has not
\* staged and is the staged node otherwise, while get_code returns what it
\* returned before, the code cache is unchanged and so is every staging map.
C13_ClearNodeCacheOnly ==
    [][\A i \in Inst : Clear(i) =>
          /\ \A y \in live : kvOf[y] = kvOf[i] =>
                \A h \in Hashes :
                    /\ h \notin Keys(staging[y]) => GetResult(y, h)' = None
                    /\ h \in Keys(staging[y]) => GetResult(y, h)' = Lookup(staging[y], h)
          /\ \A y \in live : \A h \in CodeHashes : GetCodeResult(y, h)' = GetCodeResult(y, h)
          /\ codes' = codes
          /\ staging' = staging
          /\ live' = live]_vars

\* The unbounded node cache is empty after a commit has filled it, which only
\* clear() brings about, while two instances still hold staged nodes and read
\* a code.
C13_Witness ==
    /\ backing = "btree" /\ commit_len > 0
    /\ Cardinality(live) = 2
    /\ \A y \in live : Kv(y) = <<>> /\ staging[y] # <<>> /\ Codes(y) # <<>>
    /\ \E h \in Hashes : \A y \in live : GetResult(y, h) = None

\* C14 (fork): fork() on x creates one instance j that holds the very caches
\* x holds and has an empty staging map, whatever x has staged; the step
\* changes no cache, no staging map of another instance and no cache handle
\* of another instance; and a commit on an instance with nothing staged, as a
\* fresh fork is, returns 0 and changes neither cache nor any staging map.
C14_Fork ==
    [][/\ \A x \in Inst : Fork(x) =>
            /\ Cardinality(live' \ live) = 1
            /\ \A j \in live' \ live :
                  /\ kvOf'[j] = kvOf[x] /\ codesOf'[j] = codesOf[x]
                  /\ staging'[j] = <<>>
                  /\ \A y \in Inst \ {j} :
                        /\ staging'[y] = staging[y]
                        /\ kvOf'[y] = kvOf[y] /\ codesOf'[y] = codesOf[y]
                  /\ \A h \in Hashes : GetResult(j, h)' = Lookup(Kv(x), h)
                  /\ \A h \in Hashes : GetResult(x, h)' = GetResult(x, h)
            /\ kv' = kv
            /\ codes' = codes
       /\ \A j \in Inst : (Commit(j) /\ staging[j] = <<>>) =>
            /\ commit_len' = 0
            /\ kv' = kv /\ codes' = codes /\ staging' = staging]_vars

\* A fork with nothing staged exists next to an instance that holds
\* uncommitted nodes; the shared caches hold a node and a code, and the last
\* commit returned 0.
C14_Witness ==
    /\ Cardinality(live) = 2 /\ commit_len = 0
    /\ \E x \in live : \E j \in live \ {x} :
          /\ staging[x] # <<>> /\ staging[j] = <<>> /\ written[j] = {}
          /\ kvOf[j] = kvOf[x] /\ codesOf[j] = codesOf[x]
          /\ Kv(j) # <<>> /\ Codes(j) # <<>>

\* C17 (drop): dropping instance i changes neither shared cache nor the
\* staging map or the cache handles of any other instance, so every get and
\* get_code of a remaining instance returns what it returned before; in
\* particular a hash that only i had staged stays a miss for the others.
C17_DropFrame ==
    [][\A i \in Inst : Drop(i) =>
          /\ kv' = kv
          /\ codes' = codes
          /\ live' = live \ {i}
          /\ \A y \in Inst \ {i} :
                /\ staging'[y] = staging[y]
                /\ kvOf'[y] = kvOf[y] /\ codesOf'[y] = codesOf[y]
          /\ \A y \in live' :
                /\ \A h \in Hashes : GetResult(y, h)' = GetResult(y, h)
                /\ \A h \in CodeHashes : GetCodeResult(y, h)' = GetCodeResult(y, h)
                /\ \A h \in Keys(staging[i]) :
                      GetResult(y, h) = None => GetResult(y, h)' = None]_vars

\* The instance made by `new` has been dropped; its fork still reads a node
\* and a code from the shared caches, holds staged nodes, and misses on some
\* hash.
C17_Witness ==
    /\ live = {2}
    /\ Kv(2) # <<>> /\ Codes(2) # <<>> /\ staging[2] # <<>>
    /\ staging[1] = <<>>
    /\ \E h \in Keys(Kv(2)) : GetResult(2, h) # None
    /\ \E h \in Hashes : GetResult(2, h) = None

\* The key of the last pair of a map: in an LruMap the most recently used.
LastKey(m) == m[Len(m)][1]

\* C18, the promotion itself: in the LRU backing a get that finds its hash in
\* the shared cache, and a get_code that finds its hash, leave that entry as
\* the most recently used one and the order of the other entries as it was.
C18_HitPromotes ==
    /\ \A i \in Inst : \A h \in Hashes :
          (PromoteGet(i, h) /\ CacheHit(i, h)) =>
              /\ LastKey(Kv(i)') = h
              /\ Without(Kv(i)', h) = Without(Kv(i), h)
              /\ Lookup(Kv(i)', h) = Lookup(Kv(i), h)
    /\ \A i \in Inst : \A h \in CodeHashes :
          (GetCode(i, h) /\ h \in Keys(Codes(i))) =>
              /\ LastKey(Codes(i)') = h
              /\ Without(Codes(i)', h) = Without(Codes(i), h)
              /\ Lookup(Codes(i)', h) = Lookup(Codes(i), h)

\* The last get found h and went through the branch b, and no commit followed.
LastGet(h, b) == hit # None /\ hit[1] = h /\ hit[2] = b

\* A commit of one node whose hash the cache does not hold.
CommitsOneNew(x) ==
    /\ PromoteCommit(x)
    /\ Len(staging[x]) = 1
    /\ staging[x][1][1] \notin Keys(Kv(x))

\* C18 as claimed (recency promotion on read): a get or get_code that hits
\* the shared cache makes the entry the most recently used, so the entry is
\* not the next one evicted: when the next operation on the node cache is
\* the commit of one new node, the entry read is still in the cache after it.
C18_PromotedNeverNext ==
    [][/\ C18_HitPromotes
       /\ \A x \in Inst : \A h \in Hashes :
             (CommitsOneNew(x) /\ LastGet(h, "cache")) => h \in Keys(Kv(x)')]_vars

\* C18 as amended: the entry read is not the next one evicted when the cache
\* holds another entry; the commit of one new node into a full cache evicts
\* the least recently used entry and no other, so that with capacity 2,
\* after get(hA) the commit of C leaves A and C in the cache and B out of it.
C18_PromotedSurvives ==
    [][/\ C18_HitPromotes
       /\ \A x \in Inst : \A h \in Hashes :
             (CommitsOneNew(x) /\ LastGet(h, "cache") /\ Len(Kv(x)) >= 2) =>
                 /\ h \in Keys(Kv(x)')
                 /\ h # Head(Kv(x))[1]
       /\ \A x \in Inst : (CommitsOneNew(x) /\ Len(Kv(x)) = limit) =>
             /\ Kv(x)' = Tail(Kv(x)) \o staging[x]
             /\ \A y \in live : \A h \in Hashes \ Keys(staging'[y]) :
                   GetResult(y, h)' = None <=>
                       h \notin Keys(Kv(x)) \cup Keys(staging[x]) \/ h = Head(Kv(x))[1]]_vars

\* Capacity 2 and three distinct hashes inserted one after the other: the
\* cache holds the first and the third, which only a read of the first
\* between the second and the third insertion brings about.
C18_Witness ==
    /\ limit = 2 /\ Len(inserted) = 3 /\ Cardinality(Range(inserted)) = 3
    /\ \A y \in live :
          /\ staging[y] = <<>>
          /\ GetResult(y, inserted[1]) # None
          /\ GetResult(y, inserted[2]) = None
          /\ GetResult(y, inserted[3]) # None

\* C19 (capacity invariant): in every reachable state of an LruMemStore made
\* by new(limit) and its forks, the shared node cache and the shared code
\* cache each hold at most `limit` entries, one per key.  The staging maps
\* are under no such bound (see the witness).
C19_Capacity ==
    backing = "lru" =>
        \A c \in CacheIds :
            /\ Len(kv[c]) <= limit /\ Cardinality(Keys(kv[c])) = Len(kv[c])
            /\ Len(codes[c]) <= limit /\ Cardinality(Keys(codes[c])) = Len(codes[c])

\* Both caches are full and an instance has more nodes staged than the
\* capacity.
C19_Witness ==
    /\ backing = "lru"
    /\ \E i \in live :
          /\ Len(staging[i]) > limit
          /\ Len(Kv(i)) = limit /\ Len(Codes(i)) = limit
          /\ \A p \in Pairs(staging[i]) : GetResult(i, p[1]) = Some(p[2])

\* A commit of one node whose hash the cache does not hold, in the
\* staged-read scenario.
StagedCommitsOneNew(x) ==
    /\ StagedCommit(x)
    /\ Len(staging[x]) = 1
    /\ staging[x][1][1] \notin Keys(Kv(x))

\* C20 (a get served from staging): in the LRU backing a get of a hash the
\* instance has staged returns the staged node through the branch that takes
\* no lock and leaves the shared node cache as it was, pairs and recency
\* order, also when the cache holds the hash too; the read therefore does not
\* protect the cached entry: if it is the least recently used one of a full
\* cache, the next commit of a new node evicts it, and every instance that
\* has not staged the hash then misses on it.
C20_StagedGet ==
    [][/\ \A i \in Inst : \A h \in Hashes :
             (StagedGet(i, h) /\ StagingHit(i, h)) =>
                 /\ GetResult(i, h) = Lookup(staging[i], h)
                 /\ kv' = kv
                 /\ LastGet(h, "staging")'
       /\ \A x \in Inst : \A h \in Hashes :
             (/\ StagedCommitsOneNew(x) /\ LastGet(h, "staging")
              /\ Len(Kv(x)) = limit /\ Head(Kv(x))[1] = h) =>
                 /\ h \notin Keys(Kv(x)')
                 /\ \A y \in live : h \notin Keys(staging'[y]) => GetResult(y, h)' = None]_vars

\* An instance has read a hash from its staging that is also the least
\* recently used entry of the full shared cache of capacity 2, stored there
\* under another Arc.
C20_Witness ==
    /\ limit = 2
    /\ \E i \in live : \E h \in Hashes :
          /\ LastGet(h, "staging")
          /\ h \in Keys(staging[i])
          /\ Len(Kv(i)) = 2 /\ Head(Kv(i))[1] = h
          /\ Lookup(Kv(i), h) # Lookup(staging[i], h)
          /\ GetResult(i, h) = Lookup(staging[i], h)

\* The locks instance i's thread holds.
Holds(i) == {l \in {"kv", "codes"} : lock[l] = i}

\* C15, the lock discipline: a thread holds at most one lock, and only the
\* lock of the cache its operation works on, from lock() to the return;
\* waiting for a lock or between two operations it holds none.
C15_Discipline ==
    \A i \in Inst :
        /\ Cardinality(Holds(i)) <= 1
        /\ pc[i] \in {"idle", "want"} => Holds(i) = {}
        /\ pc[i] \in {"held", "take", "store", "done"} => Holds(i) = {LockOf(op[i])}

\* C15, no deadlock: while an operation is running, some thread with a
\* running operation can take a step.
C15_NoDeadlock ==
    (\E i \in live : pc[i] # "idle") =>
        \E i \in live : pc[i] # "idle" /\ (pc[i] = "want" => lock[LockOf(op[i])] = 0)

\* C15 (deadlock freedom by lock discipline): the discipline holds in every
\* reachable state, no reachable state is a deadlock, and every operation
\* that was called returns.
C15_DeadlockFree ==
    /\ [](C15_Discipline /\ C15_NoDeadlock)
    /\ \A i \in Inst : (pc[i] # "idle") ~> (pc[i] = "idle")

\* One thread is inside commit with the node-cache lock, the other thread
\* waits for that lock.
C15_Witness ==
    \E i \in live : \E j \in live \ {i} :
        /\ pc[i] = "store" /\ lock.kv = i
        /\ pc[j] = "want" /\ LockOf(op[j]) = "kv"

\* The commit of instance i has returned.
Returned(i) == pc[i] = "idle" /\ ret[i] # None

\* The node cache after the commit of a followed by the commit of b.
SerialKv(a, b) == BTreeAppend(BTreeAppend(<<>>, staged0[a]), staged0[b])

\* C16 (no lost updates under concurrent commits): in the unbounded backing,
\* a commit that has returned has returned the number of nodes its instance
\* had staged, and once the node-cache lock is free the cache holds a node
\* for each of their hashes; after the commits of both forks have returned
\* the cache holds what it holds after the two commits in one order or the
\* other; and after two set_code calls on one hash the code cache holds the
\* blob of one of them.
C16_NoLostUpdate ==
    /\ \A x \in live : Returned(x) =>
          /\ ret[x] = Some(Len(staged0[x]))
          /\ staging[x] = <<>>
          /\ lock.kv = 0 =>
                \A p \in Pairs(staged0[x]) : SameValue(Lookup(Kv(x), p[1]), p[2])
    /\ \A x \in live : \A y \in live \ {x} :
          /\ (Returned(x) /\ Returned(y)) =>
                /\ Keys(Kv(x)) = Keys(staged0[x]) \cup Keys(staged0[y])
                /\ Kv(x) \in {SerialKv(x, y), SerialKv(y, x)}
          /\ (/\ pc[x] = "idle" /\ op[x].name = "set_code"
              /\ pc[y] = "idle" /\ op[y].name = "set_code") =>
                Lookup(Codes(x), 1) \in {Some(op[x].blob), Some(op[y].blob)}

\* Both forks have committed a node of the same hash under different Arcs,
\* one of them a second node as well, a code has been set, and the cache
\* holds both hashes.
C16_Witness ==
    /\ Cardinality(live) = 2
    /\ \A x \in live : Returned(x) /\ staged0[x] # <<>>
    /\ \E x \in live : \E y \in live \ {x} :
          /\ Len(staged0[x]) = 2
          /\ \E h \in Keys(staged0[y]) : Lookup(staged0[x], h) \notin {None, Lookup(staged0[y], h)}
          /\ Len(Kv(x)) = 2
    /\ Codes(1) # <<>>

====
